---------------------------- MODULE Spec2Model ----------------------------
(***************************************************************************)
(* A model of MultiTenantManager (multi-tenant-manager.ts), the registry   *)
(* of per-tenant database connections, together with the driver handles    *)
(* it opens and closes and ConnectorFactory.createConnector.                *)
(*                                                                         *)
(* Every public method is an async function running on the single Node.js  *)
(* thread: the code between two awaits runs atomically, and every await is *)
(* a point where another call may run.  A call is a record in `calls`      *)
(* whose pc names the await it is suspended at; one action is the code     *)
(* from one await to the next.  The await of createConnector touches only  *)
(* the call's own locals and is merged with the connect() that follows.    *)
(***************************************************************************)
EXTENDS Integers, Sequences, FiniteSets, TLC

VARIABLES
    connections,   \* this.connections: the Map, as its entries in insertion order
    handles,       \* the driver connections opened so far; a handle is an index
    now,           \* the clock read by `new Date()`, in ms
    calls,         \* the manager calls in flight, one record per caller slot
    reuse,         \* history: per tenant, the run of calls since it was absent
    config,        \* this.config
    defaultOptions, \* this.defaultOptions
    connector,     \* a connector object used on its own: its fields
    method,        \* the call of a method of that connector in flight
    validation     \* the call of a validator: what it was given and its result

settings == <<config, defaultOptions>>

connectorVars == <<connector, method>>

vars ==
    <<connections, handles, now, calls, reuse, config, defaultOptions,
      connector, method, validation>>

----------------------------------------------------------------------------
(* Bounds and inputs *)

MaxHandles == 2
MaxTicks == 1
MaxRun == 2

Tenants == {"t1", "t2"}
Calls == 1..2

MONGODB == "mongodb"
POSTGRESQL == "postgresql"
DatabaseType == {MONGODB, POSTGRESQL}
\* what a caller may pass as tenantConfig.databaseType: 'invalid' is the
\* value the test suite casts to DatabaseType
RequestedTypes == DatabaseType \cup {"invalid"}

DefaultMaxIdleTime == 300000
\* the clock advances in steps of 400 s, the idle time the test suite uses
TickMs == 400000
NoArg == -1
\* the maxIdleTime arguments tried: omitted, 0, and one clock step
MaxIdleArgs == {NoArg, 0, TickMs}

----------------------------------------------------------------------------
(* The configuration.  An object is a function from its keys: a key that   *)
(* is absent from a partial config is outside its domain.                  *)

DefaultConfig ==
    [enableConnectionPooling |-> TRUE, enableLogging |-> TRUE, logLevel |-> "info",
     defaultOptions |->
        [maxConnections |-> 10, connectionTimeout |-> 5000, idleTimeout |-> 30000,
         retryAttempts |-> 3, retryDelay |-> 1000]]

NoKeys == [k \in {} |-> 0]

\* the partial ConnectionOptions and MultiTenantConfig objects a caller passes
PartialOptions ==
    {NoKeys,
     [maxConnections |-> 50],
     [maxConnections |-> 50, connectionTimeout |-> 20000],
     [idleTimeout |-> 60000],
     [retryAttempts |-> 5, retryDelay |-> 2000]}

PartialConfigs ==
    {NoKeys, [logLevel |-> "debug"], [enableLogging |-> FALSE],
     [enableConnectionPooling |-> FALSE, logLevel |-> "warn"]}
    \cup {[defaultOptions |-> o] : o \in PartialOptions}
    \cup {[enableLogging |-> FALSE, defaultOptions |-> [idleTimeout |-> 60000]]}

\* `{ ...a, ...b }`
Spread(a, b) ==
    [k \in DOMAIN a \cup DOMAIN b |-> IF k \in DOMAIN b THEN b[k] ELSE a[k]]

\* `...newConfig.defaultOptions`: spreading undefined adds no key
OptionsOf(newConfig) ==
    IF "defaultOptions" \in DOMAIN newConfig THEN newConfig.defaultOptions ELSE NoKeys

\* `{ ...cur, ...newConfig, defaultOptions: { ...cur.defaultOptions,
\*    ...newConfig.defaultOptions } }`
MergeConfigWholesale(cur, newConfig) == Spread(cur, newConfig)
MergeConfig(cur, newConfig) ==
    Spread(Spread(cur, newConfig),
           [defaultOptions |-> Spread(cur.defaultOptions, OptionsOf(newConfig))])

----------------------------------------------------------------------------
(* Credentials and their validation.  A value a caller puts in a field is   *)
(* a string, a number or undefined (also what reading an absent key gives): *)
(* its type as typeof reports it, with str or num holding the value.        *)

Str(s) == [type |-> "string", str |-> s, num |-> 0]
Num(n) == [type |-> "number", str |-> "", num |-> n]
Undefined == [type |-> "undefined", str |-> "", num |-> 0]
NaN == [type |-> "number", str |-> "NaN", num |-> 0]

\* `!value`: undefined, '', 0 and NaN
Falsy(value) ==
    \/ value.type = "undefined"
    \/ value.type = "string" /\ value.str = ""
    \/ value.type = "number" /\ value.num = 0

GoodCredentials ==
    [host |-> Str("db"), port |-> Num(5432), username |-> Str("u"),
     password |-> Str("p"), database |-> Str("d")]

\* the credentials a caller may pass: well formed, a port out of range, a
\* missing password
CredentialInputs ==
    {GoodCredentials,
     [GoodCredentials EXCEPT !.port = Num(65536)],
     [GoodCredentials EXCEPT !.password = Str("")]}

\* String.prototype.trim on the strings used here
Trim(str) == IF str = " " THEN "" ELSE str

\* `const requiredFields = [...]`
RequiredFields == <<"host", "port", "username", "password", "database">>

\* `typeof credentials.port !== 'number' || credentials.port < 1 ||
\*  credentials.port > 65535`
PortInvalidOffByOne(port) == port.type # "number" \/ port.num < 1 \/ port.num > 65536
PortInvalid(port) == port.type # "number" \/ port.num < 1 \/ port.num > 65535

\* `typeof value !== 'string' || value.trim() === ''`
BlankOrNoString(value) == value.type # "string" \/ Trim(value.str) = ""

\* ConnectorFactory.validateCredentials: "ok" for `return true`, else the
\* message of the Error thrown
ValidateCredentials(credentials) ==
    LET missing == {i \in 1..Len(RequiredFields) : Falsy(credentials[RequiredFields[i]])}
    IN IF missing # {}
       THEN "Missing required field: "
               \o RequiredFields[CHOOSE i \in missing : \A j \in missing : i <= j]
       ELSE IF PortInvalid(credentials.port)
       THEN "Port must be a valid number between 1 and 65535"
       ELSE IF BlankOrNoString(credentials.host) THEN "Host must be a non-empty string"
       ELSE IF BlankOrNoString(credentials.database)
       THEN "Database name must be a non-empty string"
       ELSE "ok"

\* ConnectorFactory.isDatabaseTypeSupported
IsDatabaseTypeSupported(databaseType) == databaseType \in DatabaseType

\* ConnectionValidator.validateTenantConfig, for a config with a tenantId
\* and credentials
ValidateTenantConfig(databaseType, credentials) ==
    IF ~IsDatabaseTypeSupported(databaseType)
    THEN "Invalid tenant configuration: Unsupported database type"
    ELSE IF ValidateCredentials(credentials) # "ok"
    THEN "Invalid tenant configuration: " \o ValidateCredentials(credentials)
    ELSE "ok"

----------------------------------------------------------------------------
(* The JavaScript Map holding the registry: entries in insertion order, at  *)
(* most one per key.                                                        *)

NoEntry ==
    [tenantId |-> "", databaseType |-> "", connection |-> 0,
     createdAt |-> 0, lastUsed |-> 0, isActive |-> FALSE]

MapHas(m, t) == \E i \in 1..Len(m) : m[i].tenantId = t

MapGet(m, t) ==
    IF MapHas(m, t)
    THEN m[CHOOSE i \in 1..Len(m) : m[i].tenantId = t]
    ELSE NoEntry

MapSetAppends(m, t, e) == Append(m, e)
MapSet(m, t, e) ==
    IF MapHas(m, t)
    THEN [i \in 1..Len(m) |-> IF m[i].tenantId = t THEN e ELSE m[i]]
    ELSE Append(m, e)

MapDeleteAll(m, t) == <<>>
MapDeleteNothing(m, t) == m
MapDelete(m, t) == SelectSeq(m, LAMBDA e : e.tenantId # t)

MapKeys(m) == [i \in 1..Len(m) |-> m[i].tenantId]

----------------------------------------------------------------------------
(* Driver handles.  shape is what the driver returned from connect():      *)
(* a Mongoose Connection (has db and close), a TypeORM DataSource (has     *)
(* isInitialized, query and destroy) or an older TypeORM Connection        *)
(* (query and close, but neither isInitialized nor destroy).               *)

Shapes(databaseType) ==
    IF databaseType = MONGODB THEN {"mongoose"} ELSE {"datasource", "legacy"}

HasDb(h) == h # 0 /\ handles[h].shape = "mongoose"
IsInitialized(h) == h # 0 /\ handles[h].shape = "datasource" /\ handles[h].open

\* connectionInfo.connection.close / .destroy is defined
HasCloseMethod(h, databaseType) ==
    /\ h # 0
    /\ \/ databaseType = MONGODB /\ handles[h].shape = "mongoose"
       \/ databaseType = POSTGRESQL /\ handles[h].shape = "datasource"

\* the outcomes of the driver's ping / 'SELECT 1' on a handle: a closed
\* handle rejects, an open one answers or rejects
DriverPing(h) == IF handles[h].open THEN {"pong", "throws"} ELSE {"throws"}

\* the outcomes of the driver's close()/destroy()
DriverClose == {"closed", "throws"}

----------------------------------------------------------------------------
(* Calls *)

\* `null as Date | null`
NullDate == -1

\* the stats object of getConnectionStats before anything is counted
NoStats ==
    [totalConnections |-> 0, activeConnections |-> 0,
     databaseTypes |-> [k \in DatabaseType |-> 0],
     oldestConnection |-> NullDate, newestConnection |-> NullDate]

IdleCall ==
    [op |-> "none", pc |-> "idle", tenantId |-> "", databaseType |-> "",
     existing |-> 0, issued |-> FALSE, pending |-> <<>>,
     outcome |-> "none", value |-> 0,
     probe |-> "none", connects |-> 0, found |-> FALSE, validConfig |-> TRUE,
     now0 |-> 0, arg |-> 0, snap |-> <<>>,
     stats |-> NoStats, partial |-> NoKeys, before |-> NoKeys,
     tenantOptions |-> NoKeys, options |-> NoKeys]

\* a settled call's caller runs next, in the microtask that follows, before
\* any other call is resumed or started
NoneSettled == \A d \in Calls : calls[d].pc # "done"

\* the calls in flight fill the first slots: a new call takes the next one
Free(c) ==
    /\ NoneSettled
    /\ calls[c].pc = "idle"
    /\ \A d \in Calls : d < c => calls[d].pc # "idle"

Quiet(c) == \A d \in Calls \ {c} : calls[d].pc = "idle"

\* calls after call c has moved to rec.  snap, now0, arg and validConfig
\* record what a call that started alone was given and found: they are
\* dropped from the other calls in flight, which no longer run alone
Moved(c, rec) ==
    [d \in Calls |->
        IF d = c THEN rec
        ELSE IF calls[d].pc = "idle" THEN calls[d]
        ELSE [calls[d] EXCEPT !.snap = <<>>, !.now0 = 0, !.arg = 0,
                              !.validConfig = TRUE]]

NoRun ==
    [valid |-> FALSE, n |-> 0, connects |-> 0, first |-> 0, same |-> TRUE,
     lastUsed |-> NullDate]

\* the lastUsed of a history that is not kept
Unobserved == NullDate - 1

----------------------------------------------------------------------------
(* The connectors: MongoDBConnector and PostgreSQLConnector, which differ   *)
(* in the driver they call and in the names in their messages.             *)
(* driverConnection is this.mongooseConnection / this.typeormConnection,   *)
(* 0 for null.  A method is an async function: one action is its code     *)
(* from one await to the next, and the methods of a connector are called   *)
(* one after the other.                                                     *)

Backend(databaseType) == IF databaseType = MONGODB THEN "MongoDB" ELSE "PostgreSQL"

\* the connector a constructor returns
NewConnector(databaseType) ==
    [databaseType |-> databaseType, driverConnection |-> 0,
     isConnected |-> FALSE, connection |-> 0]

\* what a rejected driver call throws: an Error with a message, or a value
\* that is not an instance of Error
NonError == "not an Error"
Thrown == {"ECONNREFUSED", "timeout", NonError}

\* `error instanceof Error ? error.message : 'Unknown error'`
ErrorMessage(error) == IF error = NonError THEN "Unknown error" ELSE error

ConnectErrorNoCause(databaseType, error) ==
    "Failed to connect to " \o Backend(databaseType)
ConnectError(databaseType, error) ==
    "Failed to connect to " \o Backend(databaseType) \o ": " \o ErrorMessage(error)

DisconnectErrorUnwrapped(databaseType, error) == ErrorMessage(error)
DisconnectError(databaseType, error) ==
    "Failed to disconnect from " \o Backend(databaseType) \o ": " \o ErrorMessage(error)

NotEstablished(databaseType) == Backend(databaseType) \o " connection not established"

InfoError(databaseType, error) ==
    "Failed to get " \o Backend(databaseType) \o " connection info: "
        \o ErrorMessage(error)

\* `this.isConnected && this.mongooseConnection`
AlreadyConnectedNever(k) == FALSE
AlreadyConnected(k) == k.isConnected /\ k.driverConnection # 0

\* connect() after the driver has returned handle h
Connected(k, h) ==
    [k EXCEPT !.driverConnection = h, !.connection = h, !.isConnected = TRUE]

\* the catch of connect()
ConnectFailed(k) == [k EXCEPT !.isConnected = FALSE]

\* disconnect() after close() has resolved, or with nothing to close
DisconnectedKeepsFlag(k) == [k EXCEPT !.driverConnection = 0, !.connection = 0]
Disconnected(k) ==
    [k EXCEPT !.driverConnection = 0, !.isConnected = FALSE, !.connection = 0]

\* where each method goes first: "creating" awaits the driver's
\* createConnection, "probing" its ping or 'SELECT 1', "info" the queries
\* of getConnectionInfo, "done" is a return or throw without any await
TestConnectionEntryNoConnect(k) == IF k.driverConnection = 0 THEN "done" ELSE "probing"
TestConnectionEntry(k) == IF k.driverConnection = 0 THEN "creating" ELSE "probing"

PingEntryConnects(k) == IF k.driverConnection = 0 THEN "creating" ELSE "probing"
PingEntry(k) == IF k.driverConnection = 0 THEN "done" ELSE "probing"

GetConnectionInfoEntryUnguarded(k) == "info"
GetConnectionInfoEntry(k) == IF k.driverConnection = 0 THEN "done" ELSE "info"

\* the awaits of getConnectionInfo
InfoQueries(databaseType) == IF databaseType = MONGODB THEN 2 ELSE 3

\* the driver's answers to a ping or query through the connector's handle;
\* through null it is a TypeError
ConnectorProbe(h) == IF h = 0 THEN {"throws"} ELSE DriverPing(h)

\* what testConnection() and ping() return once the probe has settled:
\* `return true` after the await, `return false` in the catch
ProbeResult(answer) == IF answer = "pong" THEN "true" ELSE "false"

\* the consecutive successful connect() calls: how many, whether the first
\* found the connector connected, what it returned, whether all returned
\* the same, and the driver connections they opened
NoConnects ==
    [n |-> 0, fromConnected |-> FALSE, first |-> 0, same |-> TRUE, opened |-> 0]

\* the method in flight.  closeFailed: the last disconnect() threw and no
\* other method has been called since
IdleMethod ==
    [op |-> "none", pc |-> "idle", outcome |-> "none", value |-> 0, left |-> 0,
     before |-> NewConnector(""), attempted |-> FALSE, probe |-> "none",
     thrown |-> "none", opened |-> 0, driverCalls |-> 0, run |-> NoConnects,
     closeFailed |-> FALSE]

\* no validator has been called
IdleValidation ==
    [op |-> "none", databaseType |-> "", credentials |-> GoodCredentials,
     configs |-> <<>>, result |-> "none"]

\* no connector is used on its own, no validator called
NoConnector ==
    /\ connector = NewConnector("")
    /\ method = IdleMethod
    /\ validation = IdleValidation

\* new MultiTenantManager(); the history is kept for calls made one after
\* the other only
Init ==
    /\ connections = <<>>
    /\ handles = <<>>
    /\ now = 0
    /\ calls = [c \in Calls |-> IdleCall]
    /\ reuse = [t \in Tenants |-> [NoRun EXCEPT !.lastUsed = Unobserved]]
    /\ config = MergeConfig(DefaultConfig, NoKeys)
    /\ defaultOptions = config.defaultOptions
    /\ NoConnector

InitSeq ==
    /\ connections = <<>>
    /\ handles = <<>>
    /\ now = 0
    /\ calls = [c \in Calls |-> IdleCall]
    /\ reuse = [t \in Tenants |-> NoRun]
    /\ config = MergeConfig(DefaultConfig, NoKeys)
    /\ defaultOptions = config.defaultOptions
    /\ NoConnector

----------------------------------------------------------------------------
(* History of the calls made one after the other.  reuse[t] follows the    *)
(* calls for tenant t since a getConnection found it absent, while every   *)
(* probe succeeds and nothing closes the entry.  reuse[t].lastUsed is the  *)
(* lastUsed of t's entry as the latest getConnection for t left it when it *)
(* returned, NullDate before the first one.  Where two calls may overlap   *)
(* no history is kept: every lastUsed is Unobserved for good.              *)

Min(a, b) == IF a < b THEN a ELSE b

ReuseAtStart(c, t, fresh) ==
    IF ~Quiet(c) \/ \E u \in Tenants : reuse[u].lastUsed = Unobserved
    THEN [u \in Tenants |-> [NoRun EXCEPT !.lastUsed = Unobserved]]
    ELSE IF fresh
    THEN [reuse EXCEPT ![t] = [NoRun EXCEPT !.valid = TRUE, !.lastUsed = reuse[t].lastUsed]]
    ELSE reuse

ReuseConnect(r, t) ==
    [r EXCEPT ![t] = IF @.valid THEN [@ EXCEPT !.connects = Min(@ + 1, 2)] ELSE @]

ReuseReturned(r, t, h, lastUsed) ==
    LET seen == IF r[t].lastUsed = Unobserved THEN Unobserved ELSE lastUsed
    IN [r EXCEPT ![t] =
          IF @.valid
          THEN [@ EXCEPT !.n = Min(@ + 1, MaxRun),
                         !.first = IF r[t].n = 0 THEN h ELSE @,
                         !.same = @ /\ (r[t].n = 0 \/ r[t].first = h),
                         !.lastUsed = seen]
          ELSE [@ EXCEPT !.lastUsed = seen]]

ReuseBroken(r, t) == [r EXCEPT ![t] = [NoRun EXCEPT !.lastUsed = r[t].lastUsed]]

----------------------------------------------------------------------------
(* getConnection *)

\* `existingConnection && existingConnection.isActive`
ExistingIsActiveNever(e) == FALSE
ExistingIsActive(e) == e # NoEntry /\ e.isActive

\* testConnection up to its await: the shape test that decides whether the
\* driver is asked at all
ProbeIssued(h, databaseType) ==
    CASE databaseType = MONGODB -> HasDb(h)
      [] databaseType = POSTGRESQL -> IsInitialized(h)
      [] OTHER -> FALSE

\* testConnection's results: "true" only if the ping was issued and
\* answered; its catch turns a rejected ping into "false"
TestConnectionRethrows(h, issued) ==
    IF issued
    THEN {IF r = "pong" THEN "true" ELSE "throws" : r \in DriverPing(h)}
    ELSE {"false"}
TestConnection(h, issued) ==
    IF issued
    THEN {IF r = "pong" THEN "true" ELSE "false" : r \in DriverPing(h)}
    ELSE {"false"}

\* `...tenantConfig.credentials.options`: spreading undefined adds no key
CredentialsOptions(credentials) ==
    IF "options" \in DOMAIN credentials THEN credentials.options ELSE NoKeys

\* the options the manager's private createConnector hands to the connector:
\* `{ ...this.defaultOptions, ...tenantConfig.credentials.options }`
CreateConnectorOptionsDefaultsWin(defaults, tenantOptions) ==
    Spread(tenantOptions, defaults)
CreateConnectorOptions(defaults, tenantOptions) == Spread(defaults, tenantOptions)

\* the manager's private createConnector: the connector class, or the throw
CreateConnectorAcceptsAll(databaseType) ==
    IF databaseType = POSTGRESQL THEN "PostgreSQLConnector" ELSE "MongoDBConnector"
CreateConnector(databaseType) ==
    CASE databaseType = MONGODB -> "MongoDBConnector"
      [] databaseType = POSTGRESQL -> "PostgreSQLConnector"
      [] OTHER -> "Unsupported database type"

\* `Create new connection`: createConnector, then connect() is awaited
BeginCreate(c, rec, r) ==
    IF CreateConnector(rec.databaseType) = "Unsupported database type"
    THEN /\ calls' = Moved(c,
                [rec EXCEPT !.pc = "done", !.outcome = "Unsupported database type"])
         /\ reuse' = ReuseBroken(r, rec.tenantId)
    ELSE /\ calls' = Moved(c,
                [rec EXCEPT !.pc = "connect", !.connects = @ + 1,
                            !.options = CreateConnectorOptions(defaultOptions,
                                                               rec.tenantOptions)])
         /\ reuse' = ReuseConnect(r, rec.tenantId)

\* a call that may connect starts only while a handle is left for it
HandleLeft ==
    Len(handles) + Cardinality({d \in Calls : calls[d].pc \in {"probe", "connect"}})
        < MaxHandles

\* `existingConnection.lastUsed = new Date()`
TouchedRecreated(e) == [e EXCEPT !.lastUsed = now, !.createdAt = now]
Touched(e) == [e EXCEPT !.lastUsed = now]

\* getConnection reads databaseType of tenantConfig and hands the
\* credentials to the connector; validConfig only records what
\* validateTenantConfig, which it does not call, says of the config
GetConnection(c, t, databaseType, credentials) ==
    /\ Free(c)
    /\ HandleLeft
    /\ LET e == MapGet(connections, t)
           rec == [IdleCall EXCEPT !.op = "getConnection", !.tenantId = t,
                                   !.databaseType = databaseType,
                                   !.tenantOptions = CredentialsOptions(credentials),
                                   !.validConfig =
                                       Quiet(c) =>
                                          ValidateTenantConfig(databaseType, credentials) = "ok"]
           r == ReuseAtStart(c, t, ~MapHas(connections, t))
       IN IF ExistingIsActive(e)
          THEN /\ connections' = MapSet(connections, t, Touched(e))
               /\ calls' = Moved(c,
                      [rec EXCEPT !.pc = "probe", !.existing = e.connection,
                                  !.issued = ProbeIssued(e.connection, databaseType)])
               /\ reuse' = r
          ELSE /\ connections' = connections
               /\ BeginCreate(c, rec, r)
    /\ UNCHANGED <<handles, now, settings, connectorVars, validation>>

GetProbeDone(c) ==
    /\ calls[c].pc = "probe"
    /\ NoneSettled
    /\ \E alive \in TestConnection(calls[c].existing, calls[c].issued) :
          IF alive = "true"
          THEN /\ calls' = Moved(c,
                      [calls[c] EXCEPT !.pc = "done", !.probe = "alive", !.issued = FALSE,
                                !.outcome = "returned", !.value = calls[c].existing])
               /\ reuse' = ReuseReturned(reuse, calls[c].tenantId, calls[c].existing,
                                          MapGet(connections, calls[c].tenantId).lastUsed)
               /\ connections' = connections
          ELSE IF alive = "false"
          THEN /\ connections' = MapDelete(connections, calls[c].tenantId)
               /\ BeginCreate(c, [calls[c] EXCEPT !.probe = "failed", !.issued = FALSE],
                              ReuseBroken(reuse, calls[c].tenantId))
          \* anything thrown inside getConnection's try is logged and rethrown
          ELSE /\ calls' = Moved(c,
                      [calls[c] EXCEPT !.pc = "done", !.probe = "failed",
                                       !.issued = FALSE, !.outcome = alive])
               /\ reuse' = ReuseBroken(reuse, calls[c].tenantId)
               /\ connections' = connections
    /\ UNCHANGED <<handles, now, settings, connectorVars, validation>>

NewEntryInactive(t, databaseType, h) ==
    [tenantId |-> t, databaseType |-> databaseType, connection |-> h,
     createdAt |-> now, lastUsed |-> now, isActive |-> FALSE]
NewEntryNeverUsed(t, databaseType, h) ==
    [tenantId |-> t, databaseType |-> databaseType, connection |-> h,
     createdAt |-> now, lastUsed |-> 0, isActive |-> TRUE]
NewEntry(t, databaseType, h) ==
    [tenantId |-> t, databaseType |-> databaseType, connection |-> h,
     createdAt |-> now, lastUsed |-> now, isActive |-> TRUE]

\* `Store connection info`: the map after call c has stored handle h
StoreConnectionUnlessStale(c, h) ==
    IF calls[c].probe = "failed" THEN connections
    ELSE MapSet(connections, calls[c].tenantId,
                NewEntry(calls[c].tenantId, calls[c].databaseType, h))
StoreConnection(c, h) ==
    MapSet(connections, calls[c].tenantId,
           NewEntry(calls[c].tenantId, calls[c].databaseType, h))

GetConnectDone(c) ==
    /\ calls[c].pc = "connect"
    /\ NoneSettled
    /\ \/ \E shape \in Shapes(calls[c].databaseType) :
             LET h == Len(handles) + 1 IN
             /\ handles' = Append(handles, [shape |-> shape, open |-> TRUE])
             /\ connections' = StoreConnection(c, h)
             /\ calls' = Moved(c,
                    [calls[c] EXCEPT !.pc = "done", !.outcome = "returned", !.value = h,
                                     !.found = MapHas(connections, calls[c].tenantId)])
             /\ reuse' = ReuseReturned(reuse, calls[c].tenantId, h,
                            MapGet(connections', calls[c].tenantId).lastUsed)
       \/ /\ calls' = Moved(c,
                 [calls[c] EXCEPT !.pc = "done", !.outcome = "Failed to connect"])
          /\ reuse' = ReuseBroken(reuse, calls[c].tenantId)
          /\ UNCHANGED <<handles, connections>>
    /\ UNCHANGED <<now, settings, connectorVars, validation>>

----------------------------------------------------------------------------
(* closeConnection, alone or as one iteration of closeAllConnections or    *)
(* cleanupInactiveConnections                                               *)

\* what closeConnection leaves of the map once the close has been tried
AfterCloseKeepsOnThrow(m, t, result) == IF result = "throws" THEN m ELSE MapDelete(m, t)
AfterClose(m, t, result) == MapDelete(m, t)

\* the call after closeConnection(t) has returned: a direct call is over, a
\* loop awaits it and goes on
CloseReturned(rec) ==
    IF rec.op = "closeConnection"
    THEN [rec EXCEPT !.pc = "done", !.outcome = "resolved"]
    ELSE [rec EXCEPT !.pc = "loop", !.tenantId = "", !.existing = 0,
                     !.found = FALSE]

\* closeConnection on a tenant the map does not hold
CloseUnknownRejects(rec) == [CloseReturned(rec) EXCEPT !.outcome = "rejected"]
CloseUnknown(rec) == CloseReturned(rec)

\* closeConnection(t) up to its first await
BeginClose(c, rec0, t, r) ==
    LET e == MapGet(connections, t)
        rec == [rec0 EXCEPT !.tenantId = t, !.existing = e.connection,
                            !.found = MapHas(connections, t)]
    IN /\ reuse' = IF MapHas(connections, t) THEN ReuseBroken(r, t) ELSE r
       /\ IF ~MapHas(connections, t)
          THEN /\ calls' = Moved(c, CloseUnknown(rec))
               /\ connections' = connections
          ELSE IF HasCloseMethod(e.connection, e.databaseType)
          THEN /\ calls' = Moved(c, [rec EXCEPT !.pc = "closing"])
               /\ connections' = connections
          ELSE /\ calls' = Moved(c, CloseReturned(rec))
               /\ connections' = AfterClose(connections, t, "none")

\* closeConnection behind a manager-wide lock
CloseConnectionSerialized(c, t) ==
    /\ Free(c)
    /\ Quiet(c)
    /\ BeginClose(c, [IdleCall EXCEPT !.op = "closeConnection"], t,
                  ReuseAtStart(c, t, FALSE))
    /\ UNCHANGED <<handles, now, settings, connectorVars, validation>>

CloseConnection(c, t) ==
    /\ Free(c)
    /\ BeginClose(c, [IdleCall EXCEPT !.op = "closeConnection"], t,
                  ReuseAtStart(c, t, FALSE))
    /\ UNCHANGED <<handles, now, settings, connectorVars, validation>>

\* the awaited close()/destroy() settles
CloseDone(c) ==
    /\ calls[c].pc = "closing"
    /\ NoneSettled
    /\ \E result \in DriverClose :
          /\ handles' = IF result = "closed"
                        THEN [handles EXCEPT ![calls[c].existing].open = FALSE]
                        ELSE handles
          /\ connections' = AfterClose(connections, calls[c].tenantId, result)
    /\ calls' = Moved(c, CloseReturned(calls[c]))
    /\ UNCHANGED <<now, reuse, settings, connectorVars, validation>>

\* one turn of `for (const tenantId of ...) await this.closeConnection(tenantId)`
LoopTurn(c, rec, r) ==
    IF rec.pending = <<>>
    THEN /\ calls' = Moved(c,
                [rec EXCEPT !.pc = "done", !.outcome = "resolved"])
         /\ reuse' = r
         /\ connections' = connections
    ELSE BeginClose(c, [rec EXCEPT !.pending = Tail(@)], Head(rec.pending), r)

LoopNext(c) ==
    /\ calls[c].pc = "loop"
    /\ NoneSettled
    /\ LoopTurn(c, calls[c], reuse)
    /\ UNCHANGED <<handles, now, settings, connectorVars, validation>>

CloseAllConnections(c) ==
    /\ Free(c)
    /\ LoopTurn(c, [IdleCall EXCEPT !.op = "closeAllConnections",
                                    !.pending = MapKeys(connections),
                                    !.snap = IF Quiet(c) THEN connections ELSE <<>>],
                   ReuseAtStart(c, "", FALSE))
    /\ UNCHANGED <<handles, now, settings, connectorVars, validation>>

\* `idleTime > maxIdleTime`
IdleTooLongOrEqual(idleTime, maxIdleTime) == idleTime >= maxIdleTime
IdleTooLong(idleTime, maxIdleTime) == idleTime > maxIdleTime

\* the default value of the maxIdleTime parameter
MaxIdleTime(arg) == IF arg = NoArg THEN DefaultMaxIdleTime ELSE arg

CleanupInactiveConnections(c, arg) ==
    /\ Free(c)
    /\ LET maxIdleTime == MaxIdleTime(arg)
           tenantIdsToRemove ==
               MapKeys(SelectSeq(connections,
                   LAMBDA e : IdleTooLong(now - e.lastUsed, maxIdleTime)))
       IN LoopTurn(c, [IdleCall EXCEPT !.op = "cleanupInactiveConnections",
                                       !.pending = tenantIdsToRemove,
                                       !.now0 = IF Quiet(c) THEN now ELSE 0,
                                       !.arg = IF Quiet(c) THEN arg ELSE 0,
                                       !.snap = IF Quiet(c) THEN connections ELSE <<>>],
                      ReuseAtStart(c, "", FALSE))
    /\ UNCHANGED <<handles, now, settings, connectorVars, validation>>

----------------------------------------------------------------------------
(* ConnectorFactory.createConnector *)

FactoryCreateConnector(databaseType) ==
    CASE databaseType = MONGODB -> "MongoDBConnector"
      [] databaseType = POSTGRESQL -> "PostgreSQLConnector"
      [] OTHER -> "Unsupported database type"

\* synchronous, and it reads and writes nothing of the manager: how it
\* interleaves with the calls in flight makes no difference
CreateConnectorCall(c, databaseType) ==
    /\ Free(c)
    /\ Quiet(c)
    /\ calls' = Moved(c,
           [IdleCall EXCEPT !.op = "createConnector", !.pc = "done",
                            !.databaseType = databaseType,
                            !.outcome = FactoryCreateConnector(databaseType)])
    /\ UNCHANGED <<connections, handles, now, reuse, settings, connectorVars, validation>>

----------------------------------------------------------------------------
(* The synchronous readers *)

HasConnectionInactive(t) == MapHas(connections, t) /\ ~MapGet(connections, t).isActive
HasConnection(t) == MapHas(connections, t) /\ MapGet(connections, t).isActive

GetActiveConnectionsCount ==
    Cardinality({i \in 1..Len(connections) : connections[i].isActive})

TotalConnections == Len(connections)

\* `!stats.oldestConnection || connectionInfo.createdAt < stats.oldestConnection`
Oldest(oldest, createdAt) ==
    IF oldest = NullDate \/ createdAt < oldest THEN createdAt ELSE oldest

\* `!stats.newestConnection || connectionInfo.createdAt > stats.newestConnection`
NewestKeepsFirst(newest, createdAt) ==
    IF newest = NullDate THEN createdAt ELSE newest
Newest(newest, createdAt) ==
    IF newest = NullDate \/ createdAt > newest THEN createdAt ELSE newest

\* getConnectionStats on map m: the stats object, then the loop over the
\* values in insertion order
GetConnectionStats(m) ==
    LET stats[i \in 0..Len(m)] ==
            IF i = 0
            THEN [NoStats EXCEPT
                     !.totalConnections = Len(m),
                     !.activeConnections =
                         Cardinality({j \in 1..Len(m) : m[j].isActive})]
            ELSE [stats[i - 1] EXCEPT
                     !.databaseTypes[m[i].databaseType] = @ + 1,
                     !.oldestConnection = Oldest(@, m[i].createdAt),
                     !.newestConnection = Newest(@, m[i].createdAt)]
    IN stats[Len(m)]

\* a reader called: it runs to its return in one piece; snap is the map it
\* was called on
GetConnectionStatsCall(c) ==
    /\ Free(c)
    /\ Quiet(c)
    /\ calls' = Moved(c,
           [IdleCall EXCEPT !.op = "getConnectionStats", !.pc = "done",
                            !.outcome = "resolved",
                            !.stats = GetConnectionStats(connections),
                            !.snap = connections])
    /\ UNCHANGED <<connections, handles, now, reuse, settings, connectorVars, validation>>

HasConnectionCall(c, t) ==
    /\ Free(c)
    /\ calls' = Moved(c,
           [IdleCall EXCEPT !.op = "hasConnection", !.pc = "done", !.tenantId = t,
                            !.outcome = IF HasConnection(t) THEN "true" ELSE "false",
                            !.snap = connections])
    /\ UNCHANGED <<connections, handles, now, reuse, settings, connectorVars, validation>>

----------------------------------------------------------------------------
(* The configuration: the constructor and updateConfig.  Nothing else      *)
(* writes it and only the creation of a connector reads it, so it is       *)
(* followed in a specification of its own.  partial is the object the call *)
(* was given, before the config it found.                                  *)

\* new MultiTenantManager(partial)
InitConfig ==
    /\ connections = <<>>
    /\ handles = <<>>
    /\ now = 0
    /\ reuse = [t \in Tenants |-> NoRun]
    /\ \E partial \in PartialConfigs :
          /\ config = MergeConfig(DefaultConfig, partial)
          /\ calls = [c \in Calls |->
                        IF c = 1
                        THEN [IdleCall EXCEPT !.op = "constructor", !.pc = "done",
                                              !.outcome = "resolved",
                                              !.partial = partial]
                        ELSE IdleCall]
    /\ defaultOptions = config.defaultOptions
    /\ NoConnector

UpdateConfig(c, newConfig) ==
    /\ Free(c)
    /\ Quiet(c)
    /\ config' = MergeConfig(config, newConfig)
    /\ defaultOptions' = config'.defaultOptions
    /\ calls' = Moved(c,
           [IdleCall EXCEPT !.op = "updateConfig", !.pc = "done",
                            !.outcome = "resolved",
                            !.partial = newConfig, !.before = config])
    /\ UNCHANGED <<connections, handles, now, reuse, connectorVars, validation>>

----------------------------------------------------------------------------
\* handle h is in an entry of the registry or known to a call of cs
Referenced(h, cs) ==
    \/ \E i \in 1..Len(connections) : connections[i].connection = h
    \/ \E d \in Calls :
          \/ cs[d].existing = h
          \/ cs[d].value = h
          \/ \E i \in 1..Len(cs[d].snap) : cs[d].snap[i].connection = h

\* a handle that nothing refers to any more: the manager cannot reach it
\* again and what becomes of it is not followed.  Also a handle that a
\* connector's disconnect() has closed: it is not reopened
Gone == [shape |-> "gone", open |-> FALSE]

\* the caller takes the result.  The calls in flight stay in the order they
\* were started in: the later ones move up, the last slot is free
Return(c) ==
    /\ calls[c].pc = "done"
    /\ calls' = [d \in Calls |->
                    IF d < c THEN calls[d]
                    ELSE IF d + 1 \in Calls THEN calls[d + 1]
                    ELSE IdleCall]
    /\ handles' = [h \in 1..Len(handles) |->
                      IF Referenced(h, calls') THEN handles[h] ELSE Gone]
    /\ UNCHANGED <<connections, now, reuse, settings, connectorVars, validation>>

\* only the differences between the clock and the entries' times are read:
\* the clock is advanced only while the registry holds an entry
Tick ==
    /\ NoneSettled
    /\ connections # <<>>
    /\ now < MaxTicks * TickMs
    /\ now' = now + TickMs
    /\ UNCHANGED <<connections, handles, calls, reuse, settings, connectorVars, validation>>

Next ==
    \/ \E c \in Calls, t \in Tenants, k \in RequestedTypes, cr \in CredentialInputs :
          GetConnection(c, t, k, cr)
    \/ \E c \in Calls : GetProbeDone(c)
    \/ \E c \in Calls : GetConnectDone(c)
    \/ \E c \in Calls, t \in Tenants : CloseConnection(c, t)
    \/ \E c \in Calls : CloseDone(c)
    \/ \E c \in Calls : CloseAllConnections(c)
    \/ \E c \in Calls, arg \in MaxIdleArgs : CleanupInactiveConnections(c, arg)
    \/ \E c \in Calls : LoopNext(c)
    \/ \E c \in Calls, k \in RequestedTypes : CreateConnectorCall(c, k)
    \/ \E c \in Calls, t \in Tenants : HasConnectionCall(c, t)
    \/ \E c \in Calls : GetConnectionStatsCall(c)
    \/ \E c \in Calls : Return(c)
    \/ Tick

Spec == Init /\ [][Next]_vars

\* the same calls, each started only when no other call is in flight
NextSeq ==
    \/ \E c \in Calls, t \in Tenants, k \in RequestedTypes, cr \in CredentialInputs :
          Quiet(c) /\ GetConnection(c, t, k, cr)
    \/ \E c \in Calls : GetProbeDone(c)
    \/ \E c \in Calls : GetConnectDone(c)
    \/ \E c \in Calls, t \in Tenants : Quiet(c) /\ CloseConnection(c, t)
    \/ \E c \in Calls : CloseDone(c)
    \/ \E c \in Calls : Quiet(c) /\ CloseAllConnections(c)
    \/ \E c \in Calls, arg \in MaxIdleArgs :
          Quiet(c) /\ CleanupInactiveConnections(c, arg)
    \/ \E c \in Calls : LoopNext(c)
    \/ \E c \in Calls, k \in RequestedTypes : Quiet(c) /\ CreateConnectorCall(c, k)
    \/ \E c \in Calls, t \in Tenants : Quiet(c) /\ HasConnectionCall(c, t)
    \/ \E c \in Calls : GetConnectionStatsCall(c)
    \/ \E c \in Calls : Return(c)
    \/ Tick

SpecSeq == InitSeq /\ [][NextSeq]_vars

\* the credentials of a tenant that brings options of its own, or none
CredentialsWithOptions ==
    {GoodCredentials} \cup {Spread(GoodCredentials, [options |-> o]) : o \in PartialOptions}

\* a manager constructed with any partial config, then reconfigured and
\* asked for the connection of one tenant, one call after the other
NextConfig ==
    \/ \E c \in Calls, newConfig \in PartialConfigs : UpdateConfig(c, newConfig)
    \/ \E c \in Calls, k \in DatabaseType, cr \in CredentialsWithOptions :
          Quiet(c) /\ GetConnection(c, "t1", k, cr)
    \/ \E c \in Calls : GetProbeDone(c)
    \/ \E c \in Calls : GetConnectDone(c)
    \/ \E c \in Calls : Return(c)

SpecConfig == InitConfig /\ [][NextConfig]_vars

----------------------------------------------------------------------------
(* The methods of a connector *)

\* a method called: the record of the call before its first statement
Called(op) ==
    [IdleMethod EXCEPT !.op = op, !.before = connector,
                       !.run = IF op = "connect" THEN method.run ELSE NoConnects,
                       !.closeFailed = (op = "disconnect" /\ method.closeFailed)]

\* a successful connect() counted
RunConnected(run, k, h, opened) ==
    [n |-> IF run.n < MaxRun THEN run.n + 1 ELSE run.n,
     fromConnected |-> IF run.n = 0 THEN AlreadyConnected(k) ELSE run.fromConnected,
     first |-> IF run.n = 0 THEN h ELSE run.first,
     same |-> run.same /\ (run.n = 0 \/ run.first = h),
     opened |-> IF run.opened + opened < 2 THEN run.opened + opened ELSE 2]

\* a driver connection is left to open
CanCreate == Len(handles) < MaxHandles

Connect ==
    /\ method.pc = "idle"
    /\ connector.databaseType \in DatabaseType
    /\ IF AlreadyConnected(connector)
       THEN method' = [Called("connect") EXCEPT
                          !.pc = "done", !.outcome = "returned",
                          !.value = connector.driverConnection,
                          !.run = RunConnected(method.run, connector,
                                               connector.driverConnection, 0)]
       ELSE /\ CanCreate
            /\ method' = [Called("connect") EXCEPT
                             !.pc = "creating", !.attempted = TRUE,
                             !.driverCalls = 1]
    /\ UNCHANGED <<connections, handles, now, calls, reuse, settings, connector, validation>>

\* the await of createConnection is over, in connect() called by the user
\* or by testConnection
CreateDone ==
    /\ method.pc = "creating"
    /\ \/ \E shape \in Shapes(connector.databaseType) :
             LET h == Len(handles) + 1 IN
             /\ handles' = Append(handles, [shape |-> shape, open |-> TRUE])
             /\ connector' = Connected(connector, h)
             /\ method' =
                  IF method.op = "connect"
                  THEN [method EXCEPT
                          !.pc = "done", !.outcome = "returned", !.value = h,
                          !.opened = 1,
                          !.run = RunConnected(method.run, method.before, h, 1)]
                  ELSE [method EXCEPT !.pc = "probing", !.opened = 1,
                                      !.driverCalls = @ + 1]
       \/ \E error \in Thrown :
             /\ connector' = ConnectFailed(connector)
             /\ method' =
                  IF method.op = "connect"
                  THEN [method EXCEPT
                          !.pc = "done", !.run = NoConnects, !.thrown = error,
                          !.outcome = ConnectError(connector.databaseType, error)]
                  ELSE [method EXCEPT !.pc = "done", !.thrown = error,
                                      !.outcome = "false"]
             /\ UNCHANGED handles
    /\ UNCHANGED <<connections, now, calls, reuse, settings, validation>>

Disconnect ==
    /\ method.pc = "idle"
    /\ connector.databaseType \in DatabaseType
    /\ IF connector.driverConnection # 0
       THEN /\ method' = [Called("disconnect") EXCEPT !.pc = "closing",
                                                      !.driverCalls = 1]
            /\ connector' = connector
       ELSE /\ method' = [Called("disconnect") EXCEPT !.pc = "done",
                                                      !.outcome = "resolved"]
            /\ connector' = Disconnected(connector)
    /\ UNCHANGED <<connections, handles, now, calls, reuse, settings, validation>>

\* the await of close() is over
DisconnectDone ==
    /\ method.pc = "closing"
    /\ \/ /\ handles' = [handles EXCEPT ![connector.driverConnection] = Gone]
          /\ connector' = Disconnected(connector)
          /\ method' = [method EXCEPT !.pc = "done", !.outcome = "resolved",
                                      !.closeFailed = FALSE]
       \/ \E error \in Thrown :
             /\ method' = [method EXCEPT
                             !.pc = "done", !.thrown = error, !.closeFailed = TRUE,
                             !.outcome = DisconnectError(connector.databaseType, error)]
             /\ UNCHANGED <<handles, connector>>
    /\ UNCHANGED <<connections, now, calls, reuse, settings, validation>>

\* testConnection and ping up to their first await, or to their return
ProbeCalled(op, entry) ==
    /\ method.pc = "idle"
    /\ connector.databaseType \in DatabaseType
    /\ entry = "creating" => CanCreate
    /\ method' = [Called(op) EXCEPT
                     !.pc = entry,
                     !.attempted = (entry = "creating"),
                     !.driverCalls = IF entry = "done" THEN 0 ELSE 1,
                     !.outcome = IF entry = "done" THEN "false" ELSE "none"]
    /\ UNCHANGED <<connections, handles, now, calls, reuse, settings, connector, validation>>

ConnectorTestConnection == ProbeCalled("testConnection", TestConnectionEntry(connector))

Ping == ProbeCalled("ping", PingEntry(connector))

\* the await of the ping or of 'SELECT 1' is over
ProbeDone ==
    /\ method.pc = "probing"
    /\ \E answer \in ConnectorProbe(connector.driverConnection) :
          method' = [method EXCEPT
                        !.pc = "done", !.probe = answer,
                        !.outcome = ProbeResult(answer)]
    /\ UNCHANGED <<connections, handles, now, calls, reuse, settings, connector, validation>>

GetConnectionInfo ==
    /\ method.pc = "idle"
    /\ connector.databaseType \in DatabaseType
    /\ method' =
         IF GetConnectionInfoEntry(connector) = "done"
         THEN [Called("getConnectionInfo") EXCEPT
                  !.pc = "done", !.outcome = NotEstablished(connector.databaseType)]
         ELSE [Called("getConnectionInfo") EXCEPT
                  !.pc = "info", !.left = InfoQueries(connector.databaseType),
                  !.driverCalls = 1]
    /\ UNCHANGED <<connections, handles, now, calls, reuse, settings, connector, validation>>

\* one of the awaits of getConnectionInfo is over
InfoDone ==
    /\ method.pc = "info"
    /\ \E answer \in ConnectorProbe(connector.driverConnection) :
          IF answer = "pong"
          THEN method' =
                 IF method.left = 1
                 THEN [method EXCEPT !.pc = "done", !.outcome = "returned", !.left = 0]
                 ELSE [method EXCEPT !.left = @ - 1, !.driverCalls = @ + 1]
          ELSE \E error \in Thrown :
                 method' = [method EXCEPT
                              !.pc = "done", !.left = 0, !.thrown = error,
                              !.outcome = InfoError(connector.databaseType, error)]
    /\ UNCHANGED <<connections, handles, now, calls, reuse, settings, connector, validation>>

\* the caller takes the result
MethodReturn ==
    /\ method.pc = "done"
    /\ method' = [IdleMethod EXCEPT !.run = method.run,
                                    !.closeFailed = method.closeFailed]
    /\ UNCHANGED <<connections, handles, now, calls, reuse, settings, connector, validation>>

\* the listeners connect() puts on every Mongoose connection it obtains:
\* 'connected', 'disconnected' and 'error'.  They are never removed, so a
\* connection the connector has replaced by a later one still reaches them;
\* a connection that disconnect() has closed emits nothing more
MongooseEvents == {"connected", "disconnected", "error"}

MongooseEvent(h, event) ==
    /\ method.pc # "done"
    /\ connector.databaseType = MONGODB
    /\ handles[h].shape = "mongoose"
    /\ CASE event = "connected" ->
               /\ ~handles[h].open
               /\ handles' = [handles EXCEPT ![h].open = TRUE]
               /\ connector' = [connector EXCEPT !.isConnected = TRUE]
         [] event = "disconnected" ->
               /\ handles[h].open
               /\ handles' = [handles EXCEPT ![h].open = FALSE]
               /\ connector' = [connector EXCEPT !.isConnected = FALSE]
         [] OTHER ->
               /\ connector.isConnected
               /\ handles' = handles
               /\ connector' = [connector EXCEPT !.isConnected = FALSE]
    /\ method' = [method EXCEPT !.run = NoConnects]
    /\ UNCHANGED <<connections, now, calls, reuse, settings, validation>>

\* new MongoDBConnector(...) or new PostgreSQLConnector(...)
InitConnector ==
    /\ connections = <<>>
    /\ handles = <<>>
    /\ now = 0
    /\ calls = [c \in Calls |-> IdleCall]
    /\ reuse = [t \in Tenants |-> NoRun]
    /\ config = MergeConfig(DefaultConfig, NoKeys)
    /\ defaultOptions = config.defaultOptions
    /\ \E databaseType \in DatabaseType : connector = NewConnector(databaseType)
    /\ method = IdleMethod
    /\ validation = IdleValidation

NextConnector ==
    \/ Connect
    \/ CreateDone
    \/ Disconnect
    \/ DisconnectDone
    \/ ConnectorTestConnection
    \/ Ping
    \/ ProbeDone
    \/ GetConnectionInfo
    \/ InfoDone
    \/ MethodReturn
    \/ \E h \in 1..Len(handles) : \E event \in MongooseEvents : MongooseEvent(h, event)

SpecConnector == InitConnector /\ [][NextConnector]_vars

----------------------------------------------------------------------------
(* The validators: static functions of their arguments, called on inputs   *)
(* drawn from the sets below.                                              *)

MaxBatch == 3

\* the values tried in each field of the credentials
HostValues == {Str("db"), Str(" "), Str(""), Undefined, Num(5)}
PortValues ==
    {Num(5432), Num(1), Num(65535), Num(0), Num(65536), Num(-1), Str("5432"),
     Undefined, NaN}
NameValues == {Str("u"), Str(""), Undefined}
PasswordValues == {Str("p"), Str(""), Undefined}
DatabaseValues == {Str("d"), Str(" "), Undefined, Num(5)}

AnyCredentials ==
    [host : HostValues, port : PortValues, username : NameValues,
     password : PasswordValues, database : DatabaseValues]

\* the tenant configs tried in a batch: three that are valid, two of them
\* for the same tenant, and three that are not
ConfigInputs ==
    {[tenantId |-> Str("t1"), databaseType |-> MONGODB, credentials |-> GoodCredentials],
     [tenantId |-> Str("t1"), databaseType |-> POSTGRESQL, credentials |-> GoodCredentials],
     [tenantId |-> Str("t2"), databaseType |-> POSTGRESQL, credentials |-> GoodCredentials],
     [tenantId |-> Str("t2"), databaseType |-> "invalid", credentials |-> GoodCredentials],
     [tenantId |-> Str("t1"), databaseType |-> MONGODB,
      credentials |-> [GoodCredentials EXCEPT !.port = Num(65536)]],
     [tenantId |-> Str(""), databaseType |-> MONGODB, credentials |-> GoodCredentials]}

Batches == UNION {[1..n -> ConfigInputs] : n \in 0..MaxBatch}

\* ConnectionValidator.validateTenantConfig on a config that has a
\* databaseType and credentials: "ok" for `return true`, else the message
ValidateConfig(tenantConfig) ==
    IF Falsy(tenantConfig.tenantId) \/ tenantConfig.tenantId.type # "string"
    THEN "Invalid tenant configuration: Tenant ID must be a non-empty string"
    ELSE ValidateTenantConfig(tenantConfig.databaseType, tenantConfig.credentials)

\* `tenantIds.has(config.tenantId)`
HasTenantIdNever(tenantIds, tenantId) == FALSE
HasTenantId(tenantIds, tenantId) == tenantId \in tenantIds

\* ConnectionValidator.validateMultipleTenantConfigs: the loop after i
\* configs, as the message thrown so far ("ok" if none) and the Set tenantIds
ValidateMultipleTenantConfigs(configs) ==
    LET loop[i \in 0..Len(configs)] ==
          IF i = 0 THEN [result |-> "ok", tenantIds |-> {}]
          ELSE IF loop[i - 1].result # "ok" THEN loop[i - 1]
          ELSE IF ValidateConfig(configs[i]) # "ok"
          THEN [loop[i - 1] EXCEPT
                  !.result = "Invalid tenant configurations: "
                                \o ValidateConfig(configs[i])]
          ELSE IF HasTenantId(loop[i - 1].tenantIds, configs[i].tenantId)
          THEN [loop[i - 1] EXCEPT
                  !.result = "Invalid tenant configurations: Duplicate tenant ID found: "
                                \o configs[i].tenantId.str]
          ELSE [loop[i - 1] EXCEPT !.tenantIds = @ \cup {configs[i].tenantId}]
    IN loop[Len(configs)].result

ValidateCredentialsCall(databaseType, credentials) ==
    /\ validation.op = "none"
    /\ validation' = [IdleValidation EXCEPT
                         !.op = "validateCredentials",
                         !.databaseType = databaseType,
                         !.credentials = credentials,
                         !.result = ValidateCredentials(credentials)]
    /\ UNCHANGED <<connections, handles, now, calls, reuse, settings, connectorVars>>

ValidateMultipleTenantConfigsCall(configs) ==
    /\ validation.op = "none"
    /\ validation' = [IdleValidation EXCEPT
                         !.op = "validateMultipleTenantConfigs",
                         !.configs = configs,
                         !.result = ValidateMultipleTenantConfigs(configs)]
    /\ UNCHANGED <<connections, handles, now, calls, reuse, settings, connectorVars>>

\* the caller takes the result
ValidationReturn ==
    /\ validation.op # "none"
    /\ validation' = IdleValidation
    /\ UNCHANGED <<connections, handles, now, calls, reuse, settings, connectorVars>>

NextValidate ==
    \/ \E k \in RequestedTypes, cr \in AnyCredentials : ValidateCredentialsCall(k, cr)
    \/ \E configs \in Batches : ValidateMultipleTenantConfigsCall(configs)
    \/ ValidationReturn

SpecValidate == Init /\ [][NextValidate]_vars

----------------------------------------------------------------------------
(* Claims *)

\* call c settles in this step
Settles(c) == calls[c].pc # "done" /\ calls'[c].pc = "done"

Settled(c, op) == calls[c].pc = "done" /\ calls[c].op = op

\* C1: from an absent tenant, after n >= 1 getConnection calls for it, each
\* completed before the next starts and each returning, with every probe of
\* the stored handle succeeding and no close in between, exactly one connect
\* was made and every call returned the same handle, the one in the registry.
C1_IdempotentReuse ==
    \A t \in Tenants :
        reuse[t].valid /\ reuse[t].n >= 1 =>
            /\ reuse[t].connects = 1
            /\ reuse[t].same
            /\ MapGet(connections, t).connection = reuse[t].first

C1_Witness == \E t \in Tenants : reuse[t].valid /\ reuse[t].n >= 2

\* C2: a getConnection that found an active entry whose probe failed makes
\* at most one connect; when it returns a handle it made exactly one, the
\* handle is the one that connect just opened, not the stale one, and the
\* registry entry of the tenant holds it.
C2_StaleReplacement ==
    [][\A c \in Calls :
          /\ calls'[c].probe = "failed" => calls'[c].connects <= 1
          /\ (Settles(c) /\ calls'[c].op = "getConnection"
                /\ calls'[c].probe = "failed" /\ calls'[c].outcome = "returned")
             => /\ calls'[c].connects = 1
                /\ Len(handles') = Len(handles) + 1
                /\ calls'[c].value = Len(handles')
                /\ calls'[c].value # calls'[c].existing
                /\ MapGet(connections', calls'[c].tenantId).connection
                      = calls'[c].value]_vars

C2_Witness ==
    \E c \in Calls :
        /\ Settled(c, "getConnection")
        /\ calls[c].probe = "failed"
        /\ calls[c].outcome = "returned"

\* C3: at most one connect for a tenant is in flight at any time.
C3_OneCreationInFlight ==
    \A t \in Tenants :
        Cardinality({c \in Calls : calls[c].pc = "connect" /\ calls[c].tenantId = t}) <= 1

\* C4: when a getConnection whose probe failed has completed, the stale
\* handle it replaced is closed.
C4_StaleHandleClosed ==
    \A c \in Calls :
        Settled(c, "getConnection") /\ calls[c].probe = "failed"
            => ~handles[calls[c].existing].open

\* C5: closeConnection on a tenant that has an entry resolves (never
\* rejects) and leaves no entry for the tenant, whether the handle's close
\* succeeded, threw or was not there to call.
C5_CloseRemovesEntry ==
    [][\A c \in Calls :
          (Settles(c) /\ calls'[c].op = "closeConnection" /\ calls'[c].found)
          => /\ calls'[c].outcome = "resolved"
             /\ ~MapHas(connections', calls'[c].tenantId)]_vars

\* the close was awaited and threw: the handle is still open
C5_Witness ==
    \E c \in Calls :
        /\ Settled(c, "closeConnection")
        /\ calls[c].found
        /\ calls[c].existing # 0
        /\ handles[calls[c].existing].shape # "legacy"
        /\ handles[calls[c].existing].open

\* C6: closeConnection on a tenant without an entry settles at once,
\* resolved, having awaited no close, with the registry and every handle
\* as they were.
C6_CloseUnknownNoOp ==
    [][\A c \in Calls :
          (calls[c].pc = "idle" /\ calls'[c].op = "closeConnection"
             /\ ~MapHas(connections, calls'[c].tenantId))
          => /\ calls'[c].pc = "done"
             /\ calls'[c].outcome = "resolved"
             /\ connections' = connections
             /\ handles' = handles]_vars

C6_Witness ==
    \E c \in Calls :
        /\ Settled(c, "closeConnection")
        /\ ~calls[c].found
        /\ connections # <<>>

\* C7: a cleanupInactiveConnections that ran alone leaves exactly the
\* entries it found with now - lastUsed <= maxIdle, unchanged and in order,
\* now being the clock at its start and maxIdle 300000 without an argument.
C7_IdleEviction ==
    \A c \in Calls :
        Settled(c, "cleanupInactiveConnections") =>
            LET maxIdle == IF calls[c].arg = NoArg THEN 300000 ELSE calls[c].arg
            IN connections =
                  SelectSeq(calls[c].snap,
                            LAMBDA e : calls[c].now0 - e.lastUsed <= maxIdle)

\* without an argument, one entry went and one stayed
C7_Witness ==
    \E c \in Calls :
        /\ Settled(c, "cleanupInactiveConnections")
        /\ calls[c].arg = NoArg
        /\ Len(calls[c].snap) = 2
        /\ Len(connections) = 1

\* C8: a closeAllConnections that ran alone ends with an empty registry.
C8_CloseAllEmpties ==
    \A c \in Calls :
        Settled(c, "closeAllConnections") =>
            /\ connections = <<>>
            /\ TotalConnections = 0
            /\ GetActiveConnectionsCount = 0

\* two entries were there and a close threw: its handle is still open
C8_Witness ==
    \E c \in Calls :
        /\ Settled(c, "closeAllConnections")
        /\ Len(calls[c].snap) = 2
        /\ \E i \in 1..2 :
              LET e == calls[c].snap[i]
              IN HasCloseMethod(e.connection, e.databaseType)
                 /\ handles[e.connection].open

\* C9: a createConnector or getConnection for a type outside DatabaseType
\* ends with 'Unsupported database type'; no step of such a getConnection
\* awaits a connect, opens a handle or puts a handle into the registry.
\* (The steps of the calls are those taken while no caller has a result to
\* take.)
C9_UnsupportedType ==
    [][\A c \in Calls :
          (NoneSettled
             /\ calls'[c] # calls[c]
             /\ calls'[c].op \in {"getConnection", "createConnector"}
             /\ calls'[c].databaseType \notin DatabaseType)
          => /\ calls'[c].pc \in {"probe", "done"}
             /\ calls'[c].pc = "done"
                   => calls'[c].outcome = "Unsupported database type"
             /\ calls'[c].connects = 0
             /\ handles' = handles
             /\ \A t \in Tenants :
                   MapHas(connections', t) =>
                      /\ MapHas(connections, t)
                      /\ MapGet(connections', t).connection
                            = MapGet(connections, t).connection]_vars

\* the unsupported getConnection found an entry, probed it and failed
C9_Witness ==
    \E c \in Calls :
        /\ Settled(c, "getConnection")
        /\ calls[c].outcome = "Unsupported database type"
        /\ calls[c].probe = "failed"

\* C10: a getConnection whose connect failed made one connect attempt,
\* ends with the connector's error and leaves no entry for the tenant.
C10_FailedConnect ==
    \A c \in Calls :
        Settled(c, "getConnection") /\ calls[c].connects > 0
           /\ calls[c].outcome # "returned"
        => /\ calls[c].connects = 1
           /\ calls[c].outcome = "Failed to connect"
           /\ ~HasConnection(calls[c].tenantId)

\* C11: a probe that throws or reports dead never reaches the caller: the
\* step that ends such a probe removes the entry and goes on to create (it
\* awaits a connect, or ends on the unsupported type), and a getConnection
\* ends only returned, on a connect error or on an unsupported type.
C11_ProbeFailureSwallowed ==
    [][\A c \in Calls :
          /\ (calls[c].pc = "probe" /\ calls'[c].probe = "failed")
             => /\ ~MapHas(connections', calls'[c].tenantId)
                /\ \/ calls'[c].pc = "connect"
                   \/ /\ calls'[c].pc = "done"
                      /\ calls'[c].outcome = "Unsupported database type"
          /\ (Settles(c) /\ calls'[c].op = "getConnection")
             => calls'[c].outcome \in {"returned", "Failed to connect",
                                       "Unsupported database type"}]_vars

\* the probe failed and so did the connect that followed
C11_Witness ==
    \E c \in Calls :
        /\ Settled(c, "getConnection")
        /\ calls[c].probe = "failed"
        /\ calls[c].outcome = "Failed to connect"

\* C12: a getConnection, no other call in flight, whose tenant
\* configuration validateTenantConfig rejects never awaits a connect, never has a ping issued, puts no entry
\* into the registry and ends with a validation error.
C12_MalformedRejected ==
    \A c \in Calls :
        (calls[c].op = "getConnection" /\ ~calls[c].validConfig)
        => /\ calls[c].pc # "connect"
           /\ ~calls[c].issued
           /\ calls[c].connects = 0
           /\ calls[c].pc = "done"
                 => calls[c].outcome \in {"Invalid tenant configuration",
                                          "Unsupported database type"}

C14_StatsAggregate ==
    \A c \in Calls :
        Settled(c, "getConnectionStats") =>
            LET st == calls[c].stats
                idx == 1..Len(connections)
            IN /\ connections = calls[c].snap
               /\ st.totalConnections = Len(connections)
               /\ st.activeConnections
                     = Cardinality({i \in idx : connections[i].isActive})
               /\ \A k \in DatabaseType :
                     st.databaseTypes[k]
                        = Cardinality({i \in idx : connections[i].databaseType = k})
               /\ st.databaseTypes[MONGODB] + st.databaseTypes[POSTGRESQL]
                     = st.totalConnections
               /\ (st.oldestConnection = NullDate) <=> (connections = <<>>)
               /\ (st.newestConnection = NullDate) <=> (connections = <<>>)
               /\ connections # <<>>
                     => /\ \E i \in idx : connections[i].createdAt = st.oldestConnection
                        /\ \E i \in idx : connections[i].createdAt = st.newestConnection
                        /\ \A i \in idx :
                              /\ st.oldestConnection <= connections[i].createdAt
                              /\ connections[i].createdAt <= st.newestConnection
                        /\ st.oldestConnection <= st.newestConnection

\* one entry of each kind, created at different times
C14_Witness ==
    \E c \in Calls :
        /\ Settled(c, "getConnectionStats")
        /\ calls[c].stats.databaseTypes[MONGODB] = 1
        /\ calls[c].stats.databaseTypes[POSTGRESQL] = 1
        /\ calls[c].stats.oldestConnection < calls[c].stats.newestConnection

\* C15: after the constructor (over the built-in defaults) and after
\* updateConfig (over the config it found), every top-level setting that
\* the partial config has carries the partial's value and every other one
\* its prior value, and every key of defaultOptions carries the value of
\* the partial's defaultOptions if that has the key and its prior value if
\* not.
C15_ConfigMerge ==
    \A c \in Calls :
        (calls[c].pc = "done" /\ calls[c].op \in {"constructor", "updateConfig"}) =>
            LET builtIn ==
                    [enableConnectionPooling |-> TRUE, enableLogging |-> TRUE,
                     logLevel |-> "info",
                     defaultOptions |->
                        [maxConnections |-> 10, connectionTimeout |-> 5000,
                         idleTimeout |-> 30000, retryAttempts |-> 3,
                         retryDelay |-> 1000]]
                prior == IF calls[c].op = "constructor" THEN builtIn
                         ELSE calls[c].before
                partial == calls[c].partial
            IN /\ DOMAIN config = DOMAIN prior
               /\ \A k \in DOMAIN prior \ {"defaultOptions"} :
                     config[k] = IF k \in DOMAIN partial THEN partial[k] ELSE prior[k]
               /\ DOMAIN config.defaultOptions = DOMAIN prior.defaultOptions
               /\ \A k \in DOMAIN prior.defaultOptions :
                     config.defaultOptions[k] =
                        IF /\ "defaultOptions" \in DOMAIN partial
                           /\ k \in DOMAIN partial.defaultOptions
                        THEN partial.defaultOptions[k]
                        ELSE prior.defaultOptions[k]

\* updateConfig({defaultOptions: {maxConnections: 50}}) on a config whose
\* idleTimeout had been changed: maxConnections is 50, idleTimeout stays
C15_Witness ==
    \E c \in Calls :
        /\ Settled(c, "updateConfig")
        /\ calls[c].partial = [defaultOptions |-> [maxConnections |-> 50]]
        /\ calls[c].before.defaultOptions.maxConnections = 10
        /\ calls[c].before.defaultOptions.idleTimeout = 60000
        /\ config.defaultOptions.maxConnections = 50
        /\ config.defaultOptions.idleTimeout = 60000

\* C16: the registry never holds two entries for one tenantId, and the
\* entry found under key t has tenantId t: a store for a tenant that has
\* an entry replaces it.
C16_OneEntryPerTenant ==
    /\ \A i, j \in 1..Len(connections) :
          connections[i].tenantId = connections[j].tenantId => i = j
    /\ \A t \in Tenants :
          MapHas(connections, t) => MapGet(connections, t).tenantId = t
    /\ Len(connections) <= Cardinality(Tenants)

\* a getConnection stored its handle over the entry another call had put
\* there in the meantime
C16_Witness ==
    \E c \in Calls :
        /\ Settled(c, "getConnection")
        /\ calls[c].outcome = "returned"
        /\ calls[c].connects = 1
        /\ calls[c].found
        /\ Len(connections) = 1
        /\ connections[1].connection = calls[c].value

\* C17: every registry entry has lastUsed >= createdAt, the clock never
\* going back.
C17_LastUsedAfterCreated ==
    \A i \in 1..Len(connections) :
        connections[i].lastUsed >= connections[i].createdAt

\* an entry created after the clock had advanced, and one used again after
\* it was created
C17_Witness ==
    /\ \E i \in 1..Len(connections) : connections[i].createdAt > 0
    /\ \E i \in 1..Len(connections) :
          connections[i].lastUsed > connections[i].createdAt

\* C18: every entry has isActive set and a handle, a handle enters the
\* registry only from the connect that has just opened it, and a handle
\* whose probe has just failed is in no entry: the last the manager saw of
\* the handle of an entry, its connect or its latest probe, was a success.
C18_ActiveMeansSeenLive ==
    [][/\ \A i \in 1..Len(connections') :
             /\ connections'[i].isActive
             /\ connections'[i].connection \in 1..Len(handles')
             /\ \/ \E j \in 1..Len(connections) :
                      connections[j].connection = connections'[i].connection
                \/ /\ connections'[i].connection = Len(handles')
                   /\ Len(handles') = Len(handles) + 1
       /\ \A c \in Calls :
             (calls[c].pc = "probe" /\ calls'[c].probe = "failed")
             => \A i \in 1..Len(connections') :
                   connections'[i].connection # calls[c].existing]_vars

\* the ping of an open handle was rejected: its call awaits the connect
\* and the tenant's entry is gone
C18_Witness ==
    \E c \in Calls :
        /\ calls[c].pc = "connect"
        /\ calls[c].probe = "failed"
        /\ handles[calls[c].existing].open
        /\ ~MapHas(connections, calls[c].tenantId)

\* C19: while a getConnection or closeConnection for one tenant is
\* suspended at its probe, connect or close, a getConnection, hasConnection
\* or closeConnection for another tenant can start, and once started each
\* of its steps can be taken: none of them waits for the suspended call.
\* (A getConnection starts while the model has a handle left to open.)
C19_TenantsIndependent ==
    \A c \in Calls, d \in Calls, b \in Tenants :
        (/\ c # d
         /\ calls[c].op \in {"getConnection", "closeConnection"}
         /\ calls[c].pc \in {"probe", "connect", "closing"}
         /\ calls[c].tenantId # b)
        => /\ Free(d)
              => /\ ENABLED HasConnectionCall(d, b)
                 /\ ENABLED CloseConnection(d, b)
                 /\ HandleLeft
                       => \A k \in RequestedTypes, cr \in CredentialInputs :
                             ENABLED GetConnection(d, b, k, cr)
           /\ (calls[d].tenantId = b
                 /\ calls[d].op \in {"getConnection", "closeConnection"})
              => /\ calls[d].pc = "probe" => ENABLED GetProbeDone(d)
                 /\ calls[d].pc = "connect" => ENABLED GetConnectDone(d)
                 /\ calls[d].pc = "closing" => ENABLED CloseDone(d)

\* a getConnection has awaited its connect since it started; a
\* getConnection for the other tenant, started after it, has returned
C19_Witness ==
    /\ calls[1].op = "getConnection"
    /\ calls[1].pc = "connect"
    /\ calls[1].probe = "none"
    /\ Settled(2, "getConnection")
    /\ calls[2].outcome = "returned"
    /\ calls[2].tenantId # calls[1].tenantId
    /\ HasConnection(calls[2].tenantId)

\* C20: with each call completed before the next starts, the lastUsed that
\* successive getConnection calls for a tenant leave in its entry never
\* decreases, also when the entry was replaced or closed in between.
C20_LastUsedMonotonic ==
    [][\A t \in Tenants :
          (reuse[t].lastUsed >= 0 /\ reuse'[t].lastUsed >= 0)
          => reuse'[t].lastUsed >= reuse[t].lastUsed]_vars

\* a stale replacement after the clock had advanced: the new entry's
\* lastUsed is later than the one the call before had left
C20_Witness ==
    \E c \in Calls :
        /\ Settled(c, "getConnection")
        /\ calls[c].probe = "failed"
        /\ calls[c].outcome = "returned"
        /\ reuse[calls[c].tenantId].lastUsed > 0
        /\ reuse[calls[c].tenantId].lastUsed
              = MapGet(connections, calls[c].tenantId).lastUsed
----------------------------------------------------------------------------
\* C21: when getConnection creates a connector, the options it passes are
\* the manager's defaultOptions of that moment overridden key by key by the
\* tenant's credentials.options: every key of either is passed, with the
\* tenant's value when the tenant gives one and the manager's otherwise.
C21_OptionsMerged ==
    [][\A c \in Calls :
          (NoneSettled
             /\ calls'[c].op = "getConnection"
             /\ calls[c].pc # "connect"
             /\ calls'[c].pc = "connect")
          => LET passed == calls'[c].options
                 tenant == calls'[c].tenantOptions
             IN /\ DOMAIN passed = DOMAIN defaultOptions \cup DOMAIN tenant
                /\ \A k \in DOMAIN passed :
                      passed[k] = IF k \in DOMAIN tenant THEN tenant[k]
                                  ELSE defaultOptions[k]]_vars

\* a connector is being created for a tenant that overrides maxConnections,
\* by a manager whose idleTimeout has been reconfigured
C21_Witness ==
    \E c \in Calls :
       /\ calls[c].op = "getConnection"
       /\ calls[c].pc = "connect"
       /\ calls[c].tenantOptions = [maxConnections |-> 50]
       /\ defaultOptions.maxConnections = 10
       /\ defaultOptions.idleTimeout = 60000
       /\ calls[c].options.maxConnections = 50
       /\ calls[c].options.idleTimeout = 60000

----------------------------------------------------------------------------
\* C22: connect() is idempotent.  Called on a connector whose isConnected is
\* true and which holds a handle, it returns that handle and makes no driver
\* call; and however many connect() calls succeed one right after the
\* other, they all return the same handle and between them open one driver
\* connection (none, if the first already found the connector connected).
C22_ConnectIdempotent ==
    [][/\ (method.pc = "idle" /\ method'.op = "connect"
             /\ connector.isConnected /\ connector.driverConnection # 0)
          => /\ method'.pc = "done"
             /\ method'.outcome = "returned"
             /\ method'.value = connector.driverConnection
             /\ method'.driverCalls = 0
             /\ handles' = handles
             /\ connector' = connector
       /\ method'.run.n >= 1
          => /\ method'.run.same
             /\ method'.run.opened = IF method'.run.fromConnected THEN 0 ELSE 1]_vars

\* MaxRun connect() calls in a row have succeeded on a connector that was
\* not connected before the first
C22_Witness ==
    /\ method.op = "connect"
    /\ method.pc = "done"
    /\ method.run.n = MaxRun
    /\ ~method.run.fromConnected
    /\ method.run.opened = 1
    /\ method.value = method.run.first

----------------------------------------------------------------------------
\* C23: when the driver fails to establish the connection, connect() fails
\* with 'Failed to connect to <backend>: <cause>', the cause being the
\* message of the error the driver threw; afterwards isConnected is false
\* and the connector holds the handle it held before, not a new one.
C23_ConnectFailure ==
    [][(method.op = "connect" /\ method.pc = "creating"
          /\ method'.pc = "done" /\ method'.outcome # "returned")
       => /\ method'.thrown \in Thrown
          /\ method'.outcome =
                (IF connector.databaseType = MONGODB
                 THEN "Failed to connect to MongoDB: "
                 ELSE "Failed to connect to PostgreSQL: ")
                \o (IF method'.thrown = NonError THEN "Unknown error"
                    ELSE method'.thrown)
          /\ ~connector'.isConnected
          /\ connector'.driverConnection = connector.driverConnection
          /\ handles' = handles]_vars

\* a PostgreSQL connect() has failed on a refused connection
C23_Witness ==
    /\ method.op = "connect"
    /\ method.pc = "done"
    /\ connector.databaseType = POSTGRESQL
    /\ method.thrown = "ECONNREFUSED"
    /\ method.outcome = "Failed to connect to PostgreSQL: ECONNREFUSED"
    /\ ~connector.isConnected
    /\ connector.driverConnection = 0

----------------------------------------------------------------------------
\* C24: disconnect() closes the handle if one is held and clears the state:
\* once it has resolved the connector holds no handle and isConnected is
\* false, and the handle it held is closed.  Called on a connector that
\* holds no handle it makes no driver call, resolves at once and leaves the
\* connector without handle and not connected.
C24_DisconnectClears ==
    [][/\ (method.pc = "idle" /\ method'.op = "disconnect")
          => IF connector.driverConnection = 0
             THEN /\ method'.pc = "done"
                  /\ method'.outcome = "resolved"
                  /\ method'.driverCalls = 0
                  /\ handles' = handles
             ELSE /\ method'.pc = "closing"
                  /\ method'.driverCalls = 1
       /\ (method.op = "disconnect" /\ method.pc = "closing"
             /\ method'.outcome = "resolved")
          => ~handles'[connector.driverConnection].open
       /\ (method'.op = "disconnect" /\ method.pc # "done"
             /\ method'.outcome = "resolved")
          => /\ connector'.driverConnection = 0
             /\ connector'.connection = 0
             /\ ~connector'.isConnected]_vars

\* a second disconnect() in a row has resolved: the first closed the handle,
\* the second found none
C24_Witness ==
    /\ method.op = "disconnect"
    /\ method.pc = "done"
    /\ method.outcome = "resolved"
    /\ method.before.driverConnection = 0
    /\ connector.driverConnection = 0
    /\ Len(handles) = 1
    /\ ~handles[1].open

----------------------------------------------------------------------------
\* C25: the connector's testConnection() never throws.  On a connector that
\* holds no handle it first runs connect(), otherwise it goes straight to
\* the probe; it settles with true or false, with true exactly when the
\* probe was answered, and with false when its connect() failed.
C25_TestConnectionTotal ==
    [][/\ (method.pc = "idle" /\ method'.op = "testConnection")
          => IF connector.driverConnection = 0
             THEN method'.pc = "creating" /\ method'.attempted
             ELSE method'.pc = "probing" /\ ~method'.attempted
       /\ (method.op = "testConnection" /\ method.pc = "creating")
          => \/ method'.pc = "creating"
             \/ /\ method'.pc = "probing"
                /\ connector'.driverConnection # 0
             \/ /\ method'.pc = "done"
                /\ method'.outcome = "false"
                /\ method'.thrown \in Thrown
       /\ (method'.op = "testConnection" /\ method.pc # "done" /\ method'.pc = "done")
          => /\ method'.outcome \in {"true", "false"}
             /\ method'.outcome = "true" <=> method'.probe = "pong"]_vars

\* testConnection() on a connector without handle has connected, probed and
\* returned true
C25_Witness ==
    /\ method.op = "testConnection"
    /\ method.pc = "done"
    /\ method.before.driverConnection = 0
    /\ method.attempted
    /\ method.opened = 1
    /\ method.probe = "pong"
    /\ method.outcome = "true"

----------------------------------------------------------------------------
\* C26: ping() on a connector that holds no handle returns false in its
\* first step, makes no driver call, does not connect and changes nothing
\* of the connector; with a handle it issues the probe and settles with
\* true or false as the probe was answered or not, never with an error,
\* and leaves the connector as it is.
C26_PingNeverConnects ==
    [][/\ (method.pc = "idle" /\ method'.op = "ping")
          => /\ connector' = connector
             /\ handles' = handles
             /\ IF connector.driverConnection = 0
                THEN /\ method'.pc = "done"
                     /\ method'.outcome = "false"
                     /\ method'.driverCalls = 0
                ELSE method'.pc = "probing"
       /\ method'.op = "ping"
          => /\ ~method'.attempted
             /\ method'.opened = 0
             /\ method'.pc \in {"probing", "done"}
       /\ (method.op = "ping" /\ method.pc = "probing" /\ method'.pc = "done")
          => /\ connector' = connector
             /\ handles' = handles
             /\ method'.outcome \in {"true", "false"}
             /\ method'.outcome = "true" <=> method'.probe = "pong"]_vars

\* ping() has returned false on a connector that was disconnected before
C26_Witness ==
    /\ method.op = "ping"
    /\ method.pc = "done"
    /\ method.outcome = "false"
    /\ method.driverCalls = 0
    /\ method.before.driverConnection = 0
    /\ connector = method.before
    /\ Len(handles) = 1

----------------------------------------------------------------------------
\* C27: getConnectionInfo() on a connector that holds no handle fails with
\* '<backend> connection not established' without calling the driver,
\* whatever happened to the connector before; and no step of
\* getConnectionInfo(), failing or not, changes the handle or isConnected.
C27_InfoNeedsHandle ==
    [][/\ (method.pc = "idle" /\ method'.op = "getConnectionInfo"
             /\ connector.driverConnection = 0)
          => /\ method'.pc = "done"
             /\ method'.driverCalls = 0
             /\ method'.outcome =
                   IF connector.databaseType = MONGODB
                   THEN "MongoDB connection not established"
                   ELSE "PostgreSQL connection not established"
       /\ (method' # method /\ method'.op = "getConnectionInfo")
          => /\ connector' = connector
             /\ handles' = handles]_vars

\* getConnectionInfo() has failed on a connector that was connected and
\* then disconnected
C27_Witness ==
    /\ method.op = "getConnectionInfo"
    /\ method.pc = "done"
    /\ method.outcome = "PostgreSQL connection not established"
    /\ connector.driverConnection = 0
    /\ ~connector.isConnected
    /\ Len(handles) = 1
    /\ ~handles[1].open

----------------------------------------------------------------------------
\* what the credentials must be like: a field is present when it is given
\* and is not the empty string
C28_Present(value) == value.type # "undefined" /\ value # Str("")

C28_PortOk(port) == port.type = "number" /\ port # NaN /\ port.num \in 1..65535

C28_NonBlank(value) == value.type = "string" /\ value.str \notin {"", " "}

\* C28: validateCredentials returns true exactly for the credentials in
\* which host, port, username, password and database are all present
\* (given, and not the empty string), port is a number from 1 to 65535, and
\* host and database are strings that are not blank.  Every other input is
\* rejected with a message naming a field that is at fault.  The database
\* type makes no difference, and the call changes nothing but its result.
C28_ValidateCredentials ==
    [][validation'.op = "validateCredentials"
       => LET cr == validation'.credentials
              result == validation'.result
          IN /\ result = "ok"
                  <=> /\ \A f \in {"host", "port", "username", "password", "database"} :
                            C28_Present(cr[f])
                      /\ C28_PortOk(cr.port)
                      /\ C28_NonBlank(cr.host)
                      /\ C28_NonBlank(cr.database)
             /\ result # "ok"
                  => \/ \E f \in {"host", "port", "username", "password", "database"} :
                           /\ result = "Missing required field: " \o f
                           /\ ~C28_Present(cr[f]) \/ (f = "port" /\ ~C28_PortOk(cr.port))
                     \/ /\ result = "Port must be a valid number between 1 and 65535"
                        /\ ~C28_PortOk(cr.port)
                     \/ /\ result = "Host must be a non-empty string"
                        /\ ~C28_NonBlank(cr.host)
                     \/ /\ result = "Database name must be a non-empty string"
                        /\ ~C28_NonBlank(cr.database)
             /\ UNCHANGED <<connections, handles, now, calls, reuse, settings,
                            connectorVars>>]_vars

\* credentials with the highest port allowed have been accepted
C28_Witness ==
    /\ validation.op = "validateCredentials"
    /\ validation.credentials = [GoodCredentials EXCEPT !.port = Num(65535)]
    /\ validation.result = "ok"

----------------------------------------------------------------------------
\* C29: validateMultipleTenantConfigs returns true for a batch exactly when
\* validateTenantConfig accepts every config of the batch and no two
\* configs of it have the same tenantId; when every config is valid and two
\* share a tenantId it fails with 'Duplicate tenant ID found: <id>', <id>
\* being a tenantId that occurs twice.  The call changes nothing but its
\* result.
C29_BatchValidation ==
    [][validation'.op = "validateMultipleTenantConfigs"
       => LET configs == validation'.configs
              result == validation'.result
              allValid == \A i \in 1..Len(configs) : ValidateConfig(configs[i]) = "ok"
              twice == {id \in {configs[i].tenantId : i \in 1..Len(configs)} :
                          \E i, j \in 1..Len(configs) :
                             i < j /\ configs[i].tenantId = id /\ configs[j].tenantId = id}
          IN /\ result = "ok" <=> (allValid /\ twice = {})
             /\ (allValid /\ twice # {})
                  => \E id \in twice :
                        result = "Invalid tenant configurations: Duplicate tenant ID found: "
                                    \o id.str
             /\ UNCHANGED <<connections, handles, now, calls, reuse, settings,
                            connectorVars>>]_vars

\* a batch of three valid configs, the first and the last for tenant t1,
\* has been rejected for the duplicate
C29_Witness ==
    /\ validation.op = "validateMultipleTenantConfigs"
    /\ Len(validation.configs) = 3
    /\ \A i \in 1..3 : ValidateConfig(validation.configs[i]) = "ok"
    /\ validation.configs[1].tenantId = Str("t1")
    /\ validation.configs[2].tenantId = Str("t2")
    /\ validation.configs[3].tenantId = Str("t1")
    /\ validation.result = "Invalid tenant configurations: Duplicate tenant ID found: t1"

----------------------------------------------------------------------------
\* C30: on every handle the registry stores, the registry's liveness probe
\* and the ping() of the connector of the entry's kind holding that handle
\* can give the same verdicts: the registry's testConnection can return
\* true exactly when ping() can, also on a relational handle that answers
\* 'SELECT 1' but has no truthy isInitialized.
C30_SameVerdict ==
    \A i \in 1..Len(connections) :
       LET h == connections[i].connection
           kind == connections[i].databaseType
       IN TestConnection(h, ProbeIssued(h, kind))
             = {ProbeResult(answer) : answer \in ConnectorProbe(h)}


----------------------------------------------------------------------------
\* the step of call c from one await to the next while no caller is waiting
\* to run: every such step of getConnection and closeConnection moves pc
Acts(c) == NoneSettled /\ calls'[c].pc # calls[c].pc

\* C31: a getConnection for a tenant with an active entry probes the stored
\* handle as the entry's own databaseType asks, whatever databaseType the
\* caller's tenantConfig names: the driver is asked exactly when the handle
\* has the shape of the entry's kind, so a live stored handle is reused.
C31_ProbeOfStoredKind ==
    [][\A c \in Calls :
          LET e == MapGet(connections, calls'[c].tenantId)
          IN (/\ Acts(c)
              /\ calls[c].pc = "idle"
              /\ calls'[c].op = "getConnection"
              /\ ExistingIsActive(e))
             => /\ calls'[c].pc = "probe"
                /\ calls'[c].issued = ProbeIssued(e.connection, e.databaseType)]_vars


----------------------------------------------------------------------------
\* C32: a step of getConnection(A, ...) or closeConnection(A), whether the
\* call goes on to succeed or to fail, leaves the registry entry of every
\* other tenant B as it was (handle, createdAt, lastUsed, isActive,
\* databaseType), leaves B's handle as it was, and the handle the call
\* probes or closes is never B's.
C32_OtherTenantsUntouched ==
    [][\A c \in Calls : \A B \in Tenants :
          (/\ Acts(c)
           /\ calls'[c].op \in {"getConnection", "closeConnection"}
           /\ B # calls'[c].tenantId)
          => /\ MapGet(connections', B) = MapGet(connections, B)
             /\ MapHas(connections, B)
                   => LET h == MapGet(connections, B).connection
                      IN /\ handles'[h] = handles[h]
                         /\ calls'[c].existing # h]_vars

\* a closeConnection of t1 has closed t1's handle and removed its entry,
\* and t2's entry is still there with its handle open
C32_Witness ==
    /\ calls[1].op = "closeConnection"
    /\ calls[1].tenantId = "t1"
    /\ calls[1].pc = "done"
    /\ calls[1].found
    /\ ~handles[calls[1].existing].open
    /\ ~MapHas(connections, "t1")
    /\ MapHas(connections, "t2")
    /\ handles[MapGet(connections, "t2").connection].open


----------------------------------------------------------------------------
\* C33: in every state the manager's operations reach, every registry entry
\* has isActive = TRUE: the active count equals the number of entries, the
\* stats a getConnectionStats call returns have activeConnections equal to
\* totalConnections, and hasConnection(t) says exactly whether the registry
\* holds an entry for t.
C33_EntriesAlwaysActive ==
    /\ \A i \in 1..Len(connections) : connections[i].isActive
    /\ GetActiveConnectionsCount = TotalConnections
    /\ GetConnectionStats(connections).activeConnections
          = GetConnectionStats(connections).totalConnections
    /\ \A t \in Tenants : HasConnection(t) <=> MapHas(connections, t)
    /\ \A c \in Calls :
          calls[c].op = "getConnectionStats" /\ calls[c].pc = "done"
             => calls[c].stats.activeConnections = calls[c].stats.totalConnections

\* getConnectionStats has returned for a registry of two entries of
\* different kinds
C33_Witness ==
    /\ calls[1].op = "getConnectionStats"
    /\ calls[1].pc = "done"
    /\ calls[1].stats.totalConnections = 2
    /\ calls[1].stats.activeConnections = 2
    /\ Len(connections) = 2
    /\ connections[1].databaseType # connections[2].databaseType


----------------------------------------------------------------------------
\* C34: a getConnection that finds an active entry and whose probe succeeds
\* changes only that entry's lastUsed.  Its first step sets lastUsed to the
\* clock and leaves the entry's handle, createdAt, databaseType, tenantId
\* and isActive, the other entries, the number and order of the entries,
\* the handles and the manager's configuration as they were; the step in
\* which the probe answers returns the stored handle and changes none of
\* them.
C34_HitTouchesOnlyLastUsed ==
    [][\A c \in Calls :
          LET t == calls'[c].tenantId
              e == MapGet(connections, t)
          IN /\ (/\ Acts(c)
                 /\ calls[c].pc = "idle"
                 /\ calls'[c].op = "getConnection"
                 /\ ExistingIsActive(e))
                => /\ Len(connections') = Len(connections)
                   /\ \A i \in 1..Len(connections) :
                         IF connections[i].tenantId = t
                         THEN connections'[i] = [connections[i] EXCEPT !.lastUsed = now]
                         ELSE connections'[i] = connections[i]
                   /\ UNCHANGED <<handles, settings>>
             /\ (/\ Acts(c)
                 /\ calls[c].pc = "probe"
                 /\ calls'[c].probe = "alive")
                => /\ calls'[c].outcome = "returned"
                   /\ calls'[c].value = calls[c].existing
                   /\ UNCHANGED <<connections, handles, settings>>]_vars

\* a hit on an entry created at an earlier time: the call has returned the stored handle and the entry's lastUsed
\* is later than its createdAt
C34_Witness ==
    /\ calls[1].op = "getConnection"
    /\ calls[1].pc = "done"
    /\ calls[1].probe = "alive"
    /\ LET e == MapGet(connections, calls[1].tenantId)
       IN /\ e.connection = calls[1].value
          /\ e.lastUsed > e.createdAt


----------------------------------------------------------------------------
\* C35: a getConnection never returns a handle on which a closeConnection,
\* called directly or by closeAllConnections or cleanupInactiveConnections,
\* has invoked close: the handle it returns is open and no call is awaiting
\* its close.
C35_NoReturnOfClosingHandle ==
    [][\A c \in Calls :
          (/\ Acts(c)
           /\ calls'[c].op = "getConnection"
           /\ calls'[c].pc = "done"
           /\ calls'[c].outcome = "returned")
          => LET h == calls'[c].value
             IN /\ handles'[h].open
                /\ \A d \in Calls \ {c} :
                      ~(calls[d].pc = "closing" /\ calls[d].existing = h)]_vars


----------------------------------------------------------------------------
\* C36: when the close that closeConnection(t) awaited settles, the call
\* removes from the registry only the entry whose handle it closed: an entry
\* for t that a concurrent getConnection(t) installed meanwhile, on a new
\* handle, is still in the registry after the step.
C36_RemovesOnlyClosedEntry ==
    [][\A c \in Calls :
          LET t == calls[c].tenantId
              e == MapGet(connections, t)
          IN (/\ Acts(c)
              /\ calls[c].pc = "closing"
              /\ MapHas(connections, t)
              /\ e.connection # calls[c].existing)
             => MapGet(connections', t) = e]_vars


----------------------------------------------------------------------------
\* C37: cleanupInactiveConnections removes an entry only if the entry is
\* idle for longer than maxIdle when it is removed.  When the close the
\* cleanup awaited settles and the tenant's entry leaves the registry, that
\* entry's idle time exceeds the maxIdle of the call, whichever of the
\* values a call can be given it was: an entry whose lastUsed a getConnection
\* has refreshed since the scan, or that was created since, is kept.
C37_RemovedOnlyIfStillIdle ==
    [][\A c \in Calls :
          LET t == calls[c].tenantId
              e == MapGet(connections, t)
          IN (/\ Acts(c)
              /\ calls[c].op = "cleanupInactiveConnections"
              /\ calls[c].pc = "closing"
              /\ MapHas(connections, t)
              /\ ~MapHas(connections', t))
             => \E arg \in MaxIdleArgs :
                   IdleTooLong(now - e.lastUsed, MaxIdleTime(arg))]_vars


----------------------------------------------------------------------------
\* C38: when the driver's close throws, disconnect() throws
\* 'Failed to disconnect from <backend>: <cause>' and leaves the connector
\* as it was: the handle is still held, isConnected has the value it had,
\* no handle has changed; and a disconnect() called next goes to the
\* driver's close again.
C38_DisconnectFailure ==
    [][/\ (/\ method.op = "disconnect"
           /\ method.pc = "closing"
           /\ method'.pc = "done"
           /\ method'.thrown # "none")
          => /\ method'.outcome =
                   "Failed to disconnect from "
                      \o (IF connector.databaseType = MONGODB
                          THEN "MongoDB" ELSE "PostgreSQL")
                      \o ": "
                      \o (IF method'.thrown = NonError
                          THEN "Unknown error" ELSE method'.thrown)
             /\ connector' = connector
             /\ connector'.driverConnection # 0
             /\ handles' = handles
       /\ (/\ method.pc = "idle"
           /\ method.closeFailed
           /\ method'.op = "disconnect")
          => /\ method'.pc = "closing"
             /\ method'.driverCalls = 1
             /\ connector' = connector]_vars

\* a disconnect() has thrown with the connector connected, and the
\* disconnect() called after it is awaiting the close of the same handle
C38_Witness ==
    /\ method.op = "disconnect"
    /\ method.pc = "closing"
    /\ method.closeFailed
    /\ connector.isConnected
    /\ connector.driverConnection # 0
    /\ handles[connector.driverConnection].open


----------------------------------------------------------------------------
\* C39: a connector owns at most one open driver connection at any time.
\* connect(), called by the user or by testConnection, goes to the driver
\* for a new connection only when the connector holds no handle, so a held
\* handle is never overwritten without being closed, and at most one of
\* the connections the connector has obtained is open, for every ordering
\* of connect() calls and 'connected', 'disconnected' and 'error' events.
C39_OneOpenConnection ==
    [][/\ (method.pc = "idle" /\ method'.pc = "creating")
             => connector.driverConnection = 0
       /\ Cardinality({h \in 1..Len(handles') : handles'[h].open}) <= 1]_vars

----------------------------------------------------------------------------
\* C40: in every state of a connector, isConnected = TRUE implies that the
\* connector holds a handle, and the flag follows only the handle held: a
\* step in which a connection the connector does not hold, because
\* disconnect() released it or a later connect() replaced it, changes its
\* state leaves isConnected as it was.
C40_FlagFollowsHeldHandle ==
    [][/\ connector'.isConnected => connector'.driverConnection # 0
       /\ \A h \in 1..Len(handles) :
             (h # connector.driverConnection /\ handles'[h] # handles[h])
                => connector'.isConnected = connector.isConnected]_vars

=============================================================================
